---- MODULE Spec2Model ----
(***************************************************************************)
(* A model of flask_umongorest: the Resource class of resources.py (its    *)
(* constructor, the filter compiler, pagination, query assembly and the    *)
(* mutation engine) and the operators of operators.py.                     *)
(*                                                                         *)
(* Python strings are sequences of atoms.  A key of the request parameters *)
(* is a sequence of name tokens separated by the atom "__"; a value is a   *)
(* sequence of one-character atoms.  Python dicts are TLA+ functions, and  *)
(* a dict whose iteration order matters (the request parameters) is a      *)
(* sequence of key/value pairs with distinct keys.                         *)
(***************************************************************************)
EXTENDS Integers, Sequences, FiniteSets, TLC

VARIABLES
    cls,      \* the class attributes of the Resource subclass in use
    self,     \* the Resource instance: None before __init__ has run
    request,  \* the request being processed: method, params, raw_data
    obj,      \* the document handed to the mutation engine (field -> value)
    store,    \* the rows of the collection that match the request's filter
    ret       \* the outcome of the last call on the instance

vars == <<cls, self, request, obj, store, ret>>


(***************************************************************************)
(* Bounds of the model.                                                    *)
(***************************************************************************)
MaxRows == 4        \* the store holds 0..MaxRows matching rows
MaxLimitCfg == 2    \* max_limit ranges over 0..MaxLimitCfg
MaxParams == 2      \* filter parameters of one request

(***************************************************************************)
(* Python string helpers.                                                  *)
(***************************************************************************)
Contains(s, a) == \E i \in 1..Len(s) : s[i] = a

FirstIndex(s, a) == CHOOSE i \in 1..Len(s) : s[i] = a /\ \A j \in 1..(i - 1) : s[j] # a

\* str.split(d) for a one-atom delimiter d
RECURSIVE Split(_, _)
Split(s, d) ==
    IF ~Contains(s, d) THEN <<s>>
    ELSE LET i == FirstIndex(s, d)
         IN  <<SubSeq(s, 1, i - 1)>> \o Split(SubSeq(s, i + 1, Len(s)), d)

\* d.join(parts)
RECURSIVE Join(_, _)
Join(parts, d) ==
    IF parts = <<>> THEN <<>>
    ELSE IF Len(parts) = 1 THEN parts[1]
    ELSE parts[1] \o <<d>> \o Join(Tail(parts), d)

\* str.lstrip(chars): drops the leading atoms that belong to the set of chars
RECURSIVE LStrip(_, _)
LStrip(s, chars) ==
    IF s # <<>> /\ s[1] \in chars THEN LStrip(Tail(s), chars) ELSE s

Digits == <<"0", "1", "2", "3", "4", "5", "6", "7", "8", "9">>

DigitVal(a) == (CHOOSE i \in 1..10 : Digits[i] = a) - 1

IsDigit(a) == \E i \in 1..10 : Digits[i] = a

RECURSIVE DigitsToNat(_)
DigitsToNat(s) ==
    IF s = <<>> THEN 0
    ELSE 10 * DigitsToNat(SubSeq(s, 1, Len(s) - 1)) + DigitVal(s[Len(s)])

\* int(s) of a string: an optional sign and at least one digit, else ValueError
IntBody(s) == IF s # <<>> /\ s[1] \in {"-", "+"} THEN Tail(s) ELSE s

PyInt(s) ==
    IF s # <<>> /\ s[1] = "-" THEN 0 - DigitsToNat(IntBody(s)) ELSE DigitsToNat(IntBody(s))

\* str(n) for the small integers of the model
RECURSIVE NatToDigits(_)
NatToDigits(n) ==
    IF n < 10 THEN <<Digits[n + 1]>> ELSE NatToDigits(n \div 10) \o <<Digits[(n % 10) + 1]>>

PyStr(n) == IF n < 0 THEN <<"-">> \o NatToDigits(0 - n) ELSE NatToDigits(n)

\* utils.isint: whether int() accepts the value
isint(v) == IntBody(v) # <<>> /\ \A i \in 1..Len(IntBody(v)) : IsDigit(IntBody(v)[i])

Min(a, b) == IF a <= b THEN a ELSE b

\* dict.get(k, default) on a function
Get(d, k, default) == IF k \in DOMAIN d THEN d[k] ELSE default

EmptyDict == <<>>

(***************************************************************************)
(* Python values that reach an operator: None, a string, a list of strings *)
(* or a bool.  Every value has the same record shape.                      *)
(***************************************************************************)
PyNone == [t |-> "none", s |-> <<>>, l |-> <<>>, b |-> FALSE]

PyString(v) == [t |-> "str", s |-> v, l |-> <<>>, b |-> FALSE]

PyList(v) == [t |-> "list", s |-> <<>>, l |-> v, b |-> FALSE]

PyBool(v) == [t |-> "bool", s |-> <<>>, l |-> <<>>, b |-> v]

\* '{}'.format(value)
Format(value) ==
    IF value.t = "none" THEN <<"N", "o", "n", "e">> ELSE value.s

(***************************************************************************)
(* operators.py.  An operator is its class and its allow_negation flag; a  *)
(* filter fragment {field: value}, {field: {key: value}} or                *)
(* {field: {'$not': {key: value}}} is a record of shape "value", "cond" or *)
(* "not".                                                                  *)
(***************************************************************************)
Operator(c, allow_negation) == [cls |-> c, allow_negation |-> allow_negation]

\* the class attribute op
OpOf(o) ==
    CASE o.cls = "Ne" -> <<"ne">>
      [] o.cls = "Lt" -> <<"lt">>
      [] o.cls = "Lte" -> <<"lte">>
      [] o.cls = "Gt" -> <<"gt">>
      [] o.cls = "Gte" -> <<"gte">>
      [] o.cls = "Exact" -> <<"exact">>
      [] o.cls = "In" -> <<"in">>
      [] o.cls = "Boolean" -> <<"exact">>
      [] o.cls = "Startswith" -> <<"startswith">>

Fragment(field, shape, key, value) ==
    [field |-> field, shape |-> shape, key |-> key, value |-> value]

Returned(frag) == [raised |-> FALSE, frag |-> frag]

Raised == [raised |-> TRUE, frag |-> Fragment(<<>>, "value", <<>>, PyNone)]

\* Operator.prepare_queryset_kwargs
BasePrepare(o, field, value, negate) ==
    IF negate
    THEN Returned(Fragment(field, "not", <<"$">> \o OpOf(o), value))
    ELSE Returned(Fragment(field, "cond", <<"$">> \o OpOf(o), value))

\* Exact.prepare_queryset_kwargs
ExactPrepare(o, field, value, negate) ==
    IF negate
    THEN Returned(Fragment(field, "cond", <<"$", "ne">>, value))
    ELSE Returned(Fragment(field, "value", <<>>, value))

\* In.prepare_queryset_kwargs: "',' in value" raises TypeError on None
InPrepare(o, field, value, negate) ==
    IF value.t = "none" THEN Raised
    ELSE IF Contains(value.s, ",")
    THEN Returned(Fragment(field, "cond", IF negate THEN <<"nin">> ELSE OpOf(o),
                           PyList(Split(value.s, ","))))
    ELSE Returned(Fragment(field, "cond", IF negate THEN <<"ne">> ELSE <<>>, value))

\* Boolean.prepare_queryset_kwargs
BooleanPrepare(o, field, value, negate) ==
    LET bool_value == ~(value.t = "str" /\ value.s = <<"f", "a", "l", "s", "e">>)
    IN  Returned(Fragment(field, "value", <<>>,
                          PyBool(IF negate THEN ~bool_value ELSE bool_value)))

\* Startswith.prepare_queryset_kwargs
StartswithPrepare(o, field, value, negate) ==
    Returned(Fragment(field, "cond", <<"$", "regex">>, PyString(<<"^">> \o Format(value))))

\* Operator.apply (Startswith.apply is the same code)
Apply(o, field, value, negate) ==
    CASE o.cls = "Exact" -> ExactPrepare(o, field, value, negate)
      [] o.cls = "In" -> InPrepare(o, field, value, negate)
      [] o.cls = "Boolean" -> BooleanPrepare(o, field, value, negate)
      [] o.cls = "Startswith" -> StartswithPrepare(o, field, value, negate)
      [] OTHER -> BasePrepare(o, field, value, negate)

(***************************************************************************)
(* Resource.get_filters: the declared field -> operators lists compiled to *)
(* field -> suffix -> operator; an operator whose op is 'exact' is also    *)
(* entered under the empty suffix, and a later operator replaces an        *)
(* earlier one with the same suffix.                                       *)
(***************************************************************************)
RECURSIVE FieldFilters(_)
FieldFilters(operators) ==
    IF operators = <<>> THEN EmptyDict
    ELSE LET op == operators[Len(operators)]
             before == FieldFilters(SubSeq(operators, 1, Len(operators) - 1))
         IN  IF OpOf(op) = <<"exact">>
             THEN (OpOf(op) :> op) @@ (<<>> :> op) @@ before
             ELSE (OpOf(op) :> op) @@ before

get_filters(c) == [field \in DOMAIN c.filters |-> FieldFilters(c.filters[field])]

(***************************************************************************)
(* urlparse(value).path: the scheme up to the first ':', the netloc after  *)
(* a leading '//', the fragment from the first '#' and the query from the  *)
(* first '?' are split off; what is left is the path.                      *)
(***************************************************************************)
SchemeChar(a) == a \notin {":", "/", "?", "#"} /\ a \notin {"\"", "'", ",", "^"}

UrlAfterScheme(url) ==
    IF Contains(url, ":")
       /\ FirstIndex(url, ":") > 1
       /\ ~IsDigit(url[1])
       /\ \A j \in 1..(FirstIndex(url, ":") - 1) : SchemeChar(url[j])
    THEN SubSeq(url, FirstIndex(url, ":") + 1, Len(url))
    ELSE url

UrlAfterNetloc(url) ==
    IF Len(url) >= 2 /\ url[1] = "/" /\ url[2] = "/"
    THEN LET ends == {i \in 3..Len(url) : url[i] \in {"/", "?", "#"}}
         IN  IF ends = {} THEN <<>>
             ELSE SubSeq(url, CHOOSE i \in ends : \A j \in ends : i <= j, Len(url))
    ELSE url

UrlBefore(url, a) == IF Contains(url, a) THEN SubSeq(url, 1, FirstIndex(url, a) - 1) ELSE url

UrlPath(value) == UrlBefore(UrlBefore(UrlAfterNetloc(UrlAfterScheme(value)), "#"), "?")

\* the set of characters of a string
(***************************************************************************)
(* Resource.apply_filters, one parameter at a time.                        *)
(***************************************************************************)
\* lines 533-543: the value handed to the operator
NullOrString(v) ==
    IF v = <<>> THEN PyNone
    ELSE IF v \in {<<"\"", "\"">>, <<"'", "'">>} THEN PyString(<<>>)
    ELSE PyString(v)

FilterValue(c, value) ==
    NullOrString(IF c.uri_prefix.set
                 THEN LStrip(UrlPath(value),
                             {c.uri_prefix.s[i] : i \in 1..Len(c.uri_prefix.s)})
                 ELSE value)

\* lines 547-553: the longest prefix of the key's parts that names a field
\* with a non-empty operator table; without one, the loop ends on parts[:1]
MatchedLengths(filters, parts) ==
    {i \in 1..Len(parts) :
        /\ Join(SubSeq(parts, 1, i), "__") \in DOMAIN filters
        /\ DOMAIN filters[Join(SubSeq(parts, 1, i), "__")] # {}}

MatchedLength(filters, parts) ==
    IF MatchedLengths(filters, parts) = {} THEN 0
    ELSE CHOOSE i \in MatchedLengths(filters, parts) :
             \A j \in MatchedLengths(filters, parts) : j <= i

\* a parameter's outcome: it is skipped, it appends a fragment, or it raises
SkipTerm == [kind |-> "skip", frag |-> Raised.frag]

Term(r) ==
    IF r.raised THEN [kind |-> "raise", frag |-> r.frag] ELSE [kind |-> "frag", frag |-> r.frag]

Last(s) == s[Len(s)]

Front(s) == SubSeq(s, 1, Len(s) - 1)

\* lines 575-577: leftover parts extend the field, which is then mapped back
FieldPath(inst, field, parts) ==
    IF parts # <<>>
    THEN Get(inst._reverse_rename_fields, field \o <<"__">> \o Join(parts, "__"),
             field \o <<"__">> \o Join(parts, "__"))
    ELSE Get(inst._reverse_rename_fields, field, field)

\* lines 570-579
LookupOperator(inst, c, value, field, op_name, negate, parts) ==
    IF op_name \notin DOMAIN inst._filters[field] THEN SkipTerm
    ELSE IF negate /\ ~inst._filters[field][op_name].allow_negation THEN SkipTerm
    ELSE Term(Apply(inst._filters[field][op_name], FieldPath(inst, field, parts),
                    FilterValue(c, value), negate))

\* IsNegated never recognising the "not" modifier
NeverNegated(parts) == FALSE

\* lines 566-568
IsNegated(parts) == parts # <<>> /\ Last(parts) = <<"not">>

ResolveNegation(inst, c, value, field, op_name, parts) ==
    LookupOperator(inst, c, value, field, op_name, IsNegated(parts),
                   IF IsNegated(parts) THEN Front(parts) ELSE parts)

\* lines 557-565
IsOperator(inst, field, parts) == parts # <<>> /\ Last(parts) \in DOMAIN inst._filters[field]

ResolveOperator(inst, c, value, field, parts) ==
    IF field \notin DOMAIN inst._filters THEN SkipTerm
    ELSE ResolveNegation(inst, c, value, field,
                         IF IsOperator(inst, field, parts) THEN Last(parts) ELSE <<>>,
                         IF IsOperator(inst, field, parts) THEN Front(parts) ELSE parts)

\* lines 548-555: n is the matched length, 0 when the loop ran to its end
ResolveField(inst, c, value, parts, n) ==
    ResolveOperator(inst, c, value,
                    Join(SubSeq(parts, 1, IF n = 0 THEN 1 ELSE n), "__"),
                    IF n = 0 THEN parts ELSE SubSeq(parts, n + 1, Len(parts)))

SplitKey(inst, c, value, parts) ==
    ResolveField(inst, c, value, parts, MatchedLength(inst._filters, parts))

\* lines 528-579, the body of the loop for one parameter
FilterTerm(inst, c, key, value) == SplitKey(inst, c, value, Split(key, "__"))

\* the list "filters" after the loop over params[1..n]
AppendTerm(before, term) ==
    IF before.raised \/ term.kind = "raise" THEN [raised |-> TRUE, filters |-> <<>>]
    ELSE IF term.kind = "frag"
    THEN [raised |-> FALSE, filters |-> Append(before.filters, term.frag)]
    ELSE before

RECURSIVE FilterList(_, _, _, _)
FilterList(inst, c, params, n) ==
    IF n = 0 THEN [raised |-> FALSE, filters |-> <<>>]
    ELSE AppendTerm(FilterList(inst, c, params, n - 1),
                    FilterTerm(inst, c, params[n].key, params[n].value))

\* lines 519-583: {} is the empty list, {'$and': filters} the list itself
apply_filters(inst, c, params) == FilterList(inst, c, params, Len(params))

(***************************************************************************)
(* Request parameters: a sequence of [key, value] with distinct keys.      *)
(***************************************************************************)
Param(key, value) == [key |-> key, value |-> value]

HasParam(params, key) == \E i \in 1..Len(params) : params[i].key = key

ParamValue(params, key) == params[CHOOSE i \in 1..Len(params) : params[i].key = key].value

\* the truth value of params.get(key): a missing or empty value is false
ParamTruthy(params, key) == HasParam(params, key) /\ ParamValue(params, key) # <<>>

(***************************************************************************)
(* The class attributes of Resource and their defaults (lines 30-72).      *)
(***************************************************************************)
DEFAULT_LIMIT == 100

MAX_LIMIT == 100

BULK_UPDATE_LIMIT == 1000

NoPrefix == [set |-> FALSE, s |-> <<>>]

NoClass == "None"

ResourceDefaults ==
    [document |-> "Document",
     doc_fields |-> {},
     reference_fields |-> {},
     rename_fields |-> <<>>,
     schema |-> FALSE,
     filters |-> EmptyDict,
     allowed_ordering |-> <<>>,
     paginate |-> TRUE,
     default_limit |-> DEFAULT_LIMIT,
     max_limit |-> MAX_LIMIT,
     bulk_update_limit |-> BULK_UPDATE_LIMIT,
     child_document_resources |-> EmptyDict,
     default_child_resource_document |-> NoClass,
     uri_prefix |-> NoPrefix]

(***************************************************************************)
(* Resource.__init__ (lines 74-95).  rename_fields is the dict literal as  *)
(* a sequence of [k, v] items with distinct keys.                          *)
(***************************************************************************)
Item(k, v) == [k |-> k, v |-> v]

\* the dict of a sequence of items
RECURSIVE DictOf(_)
DictOf(items) ==
    IF items = <<>> THEN EmptyDict
    ELSE (items[Len(items)].k :> items[Len(items)].v)
             @@ DictOf(SubSeq(items, 1, Len(items) - 1))

\* lines 85-87: each item (k, v) of the rename map stored as reverse[v] = k
RECURSIVE ReverseOf(_)
ReverseOf(items) ==
    IF items = <<>> THEN EmptyDict
    ELSE (items[Len(items)].v :> items[Len(items)].k)
             @@ ReverseOf(SubSeq(items, 1, Len(items) - 1))

NoData == [set |-> FALSE, d |-> EmptyDict]

SomeData(d) == [set |-> TRUE, d |-> d]

NoList == [set |-> FALSE, l |-> <<>>]

\* obj = None; its class is NoneType
NoObject == [is_none |-> TRUE, class |-> "NoneType", has_db_data |-> FALSE,
             fields |-> EmptyDict, _db_data |-> EmptyDict]

SomeList(l) == [set |-> TRUE, l |-> l]

NotConstructed ==
    [constructed |-> FALSE, class |-> NoClass, view_method |-> "None",
     _rename_fields |-> <<>>, _reverse_rename_fields |-> EmptyDict,
     _filters |-> EmptyDict, data |-> NoData, _dirty_fields |-> NoList]

get_rename_fields(c) == c.rename_fields

\* a constructor that asserts nothing
NoAssertion(c) == TRUE

\* the assertion of lines 88-89
RenameAssertion(c) ==
    Cardinality(DOMAIN DictOf(get_rename_fields(c)))
        = Cardinality(DOMAIN ReverseOf(get_rename_fields(c)))

\* the instance __init__ leaves behind; NotConstructed when the assertion fails
New(registry, class, view_method) ==
    IF ~RenameAssertion(registry[class]) THEN NotConstructed
    ELSE [constructed |-> TRUE, class |-> class, view_method |-> view_method,
          _rename_fields |-> get_rename_fields(registry[class]),
          _reverse_rename_fields |-> ReverseOf(get_rename_fields(registry[class])),
          _filters |-> get_filters(registry[class]),
          data |-> NoData, _dirty_fields |-> NoList]

(***************************************************************************)
(* Resource.apply_ordering (lines 585-597).                                *)
(***************************************************************************)
InList(l, x) == \E i \in 1..Len(l) : l[i] = x

ReverseRenamed(inst, names) ==
    [i \in 1..Len(names) |-> Get(inst._reverse_rename_fields, names[i], names[i])]

apply_ordering(inst, c, params) ==
    IF c.allowed_ordering # <<>>
       /\ HasParam(params, <<"_order_by">>)
       /\ InList(c.allowed_ordering, ParamValue(params, <<"_order_by">>))
    THEN SomeList(ReverseRenamed(inst, Split(ParamValue(params, <<"_order_by">>), ",")))
    ELSE NoList

(***************************************************************************)
(* Resource.get_skip_and_limit (lines 599-622).                            *)
(***************************************************************************)
NoError == [msg |-> "", arg |-> <<>>]

ValidationError(msg, arg) == [msg |-> msg, arg |-> arg]

SkipLimit(skip, limit) == [raised |-> FALSE, error |-> NoError, skip |-> skip, limit |-> limit]

SkipLimitError(e) == [raised |-> TRUE, error |-> e, skip |-> 0, limit |-> 0]

get_max_limit(c) == c.max_limit

SkipAndLimit(c, params, max_limit) ==
        IF c.paginate
        THEN IF HasParam(params, <<"_limit">>) /\ ~isint(ParamValue(params, <<"_limit">>))
             THEN SkipLimitError(ValidationError("_limit must be an integer (got \"%s\" instead).",
                                                 ParamValue(params, <<"_limit">>)))
             ELSE IF HasParam(params, <<"_skip">>) /\ ~isint(ParamValue(params, <<"_skip">>))
             THEN SkipLimitError(ValidationError("_skip must be an integer (got \"%s\" instead).",
                                                 ParamValue(params, <<"_skip">>)))
             ELSE IF ParamTruthy(params, <<"_limit">>)
                     /\ PyInt(ParamValue(params, <<"_limit">>)) > max_limit
             THEN SkipLimitError(ValidationError(
                      "The limit you set is larger than the maximum limit for this resource (max_limit = %d).",
                      PyStr(max_limit)))
             ELSE IF ParamTruthy(params, <<"_skip">>)
                     /\ PyInt(ParamValue(params, <<"_skip">>)) < 0
             THEN SkipLimitError(ValidationError(
                      "_skip must be a non-negative integer (got \"%s\" instead).",
                      ParamValue(params, <<"_skip">>)))
             ELSE SkipLimit(IF HasParam(params, <<"_skip">>)
                            THEN PyInt(ParamValue(params, <<"_skip">>)) ELSE 0,
                            Min(IF HasParam(params, <<"_limit">>)
                                THEN PyInt(ParamValue(params, <<"_limit">>))
                                ELSE c.default_limit,
                                max_limit))
        ELSE SkipLimit(0, max_limit)

\* get_skip_and_limit clamping the limit without the check of line 613
ClampOnly(c, params) ==
    IF c.paginate /\ HasParam(params, <<"_limit">>) /\ isint(ParamValue(params, <<"_limit">>))
       /\ (HasParam(params, <<"_skip">>) => isint(ParamValue(params, <<"_skip">>)))
       /\ PyInt(ParamValue(params, <<"_limit">>)) > get_max_limit(c)
    THEN SkipLimit(0, get_max_limit(c))
    ELSE SkipAndLimit(c, params, get_max_limit(c))

get_skip_and_limit(c, params) == SkipAndLimit(c, params, get_max_limit(c))

(***************************************************************************)
(* The store's cursor over the matching rows: skip(n) drops the first n    *)
(* rows; limit(n) keeps the first |n| rows, and limit(0) keeps them all.   *)
(***************************************************************************)
CursorSkip(rows, n) == SubSeq(rows, n + 1, Len(rows))

CursorLimit(rows, n) ==
    IF n = 0 THEN rows
    ELSE SubSeq(rows, 1, Min(Len(rows), IF n < 0 THEN 0 - n ELSE n))

(***************************************************************************)
(* Resource.get_objects (lines 624-676).  rows are the rows the store      *)
(* matches for the compiled filter, in the compiled order.                 *)
(***************************************************************************)
Objects(objs, has_more, count, query_filter, query_order) ==
    [raised |-> FALSE, error |-> NoError, objs |-> objs, has_more |-> has_more,
     count |-> count, query_filter |-> query_filter, query_order |-> query_order,
     exception |-> ""]

ObjectsError(kind, e) ==
    [raised |-> TRUE, error |-> e, objs |-> <<>>, has_more |-> "None", count |-> 0,
     query_filter |-> <<>>, query_order |-> NoList, exception |-> kind]

\* Evaluate refusing a bulk update only above the cap
EvaluateAboveCap(inst, c, rows, query_filter, query_order, bulk, limit, objs) ==
    IF bulk /\ Len(objs) > c.bulk_update_limit
    THEN ObjectsError("ValidationError",
                      ValidationError("It's not allowed to update more than %d objects at once",
                                      PyStr(c.bulk_update_limit)))
    ELSE IF ~bulk /\ c.paginate
    THEN IF Len(objs) > limit
         THEN Objects(Front(objs), "True", Len(rows), query_filter, query_order)
         ELSE Objects(objs, "False", Len(rows), query_filter, query_order)
    ELSE Objects(objs, "None", Len(rows), query_filter, query_order)

\* lines 657-676, after the cursor has been evaluated
Evaluate(inst, c, rows, query_filter, query_order, bulk, limit, objs) ==
    IF bulk /\ Len(objs) >= c.bulk_update_limit
    THEN ObjectsError("ValidationError",
                      ValidationError("It's not allowed to update more than %d objects at once",
                                      PyStr(c.bulk_update_limit)))
    ELSE IF ~bulk /\ c.paginate
    THEN IF Len(objs) > limit
         THEN Objects(Front(objs), "True", Len(rows), query_filter, query_order)
         ELSE Objects(objs, "False", Len(rows), query_filter, query_order)
    ELSE Objects(objs, "None", Len(rows), query_filter, query_order)

\* Paginate fetching limit rows instead of limit + 1
PaginateNoProbe(inst, c, rows, query_filter, query_order, bulk, sl) ==
    IF query_filter.raised THEN ObjectsError("TypeError", NoError)
    ELSE IF bulk
    THEN Evaluate(inst, c, rows, query_filter.filters, query_order, bulk,
                  c.bulk_update_limit, CursorLimit(rows, c.bulk_update_limit))
    ELSE IF sl.raised THEN ObjectsError("ValidationError", sl.error)
    ELSE Evaluate(inst, c, rows, query_filter.filters, query_order, bulk,
                  sl.limit, CursorLimit(CursorSkip(rows, sl.skip), sl.limit))

\* lines 644-652: the limit and the cursor of the two modes
Paginate(inst, c, rows, query_filter, query_order, bulk, sl) ==
    IF query_filter.raised THEN ObjectsError("TypeError", NoError)
    ELSE IF bulk
    THEN Evaluate(inst, c, rows, query_filter.filters, query_order, bulk,
                  c.bulk_update_limit, CursorLimit(rows, c.bulk_update_limit))
    ELSE IF sl.raised THEN ObjectsError("ValidationError", sl.error)
    ELSE Evaluate(inst, c, rows, query_filter.filters, query_order, bulk,
                  sl.limit, CursorLimit(CursorSkip(rows, sl.skip), sl.limit + 1))

get_objects(inst, c, params, rows) ==
    Paginate(inst, c, rows, apply_filters(inst, c, params), apply_ordering(inst, c, params),
             inst.view_method = "BulkUpdate", get_skip_and_limit(c, params))

(***************************************************************************)
(* The values of document fields and payloads: None, a number (also a raw  *)
(* id), a list, a document (it has a pk and an id) or a DBRef (it has an   *)
(* id only).                                                               *)
(***************************************************************************)
Value(t, n) == [t |-> t, n |-> n]

NoneValue == Value("none", 0)

Falsy(v) == v.t = "none" \/ (v.t = "int" /\ v.n = 0)

\* utils.equal
equal(a, b) == a = b

(***************************************************************************)
(* Resource._subresource (lines 289-302) and the chain of delegations that *)
(* validate_request and update_object follow.                              *)
(***************************************************************************)
\* lines 294-296: s_class; the lookup of line 296 raises KeyError
SubresourceClass(c, objclass) ==
    IF Get(c.child_document_resources, objclass, NoClass) = NoClass
       /\ c.default_child_resource_document # NoClass
    THEN Get(c.child_document_resources, c.default_child_resource_document, "KeyError")
    ELSE Get(c.child_document_resources, objclass, NoClass)

SubresourceRaises(e) == [kind |-> "raise", exception |-> e, inst |-> NotConstructed]

\* _subresource without the comparison of s_class with the resource's class
SubresourceOfAny(registry, inst, s_class) ==
    IF s_class = "KeyError" THEN SubresourceRaises("KeyError")
    ELSE IF s_class # NoClass
    THEN IF RenameAssertion(registry[s_class])
         THEN [kind |-> "delegate", exception |-> "",
               inst |-> [New(registry, s_class, inst.view_method) EXCEPT !.data = inst.data]]
         ELSE SubresourceRaises("AssertionError")
    ELSE [kind |-> "none", exception |-> "", inst |-> NotConstructed]

\* lines 297-302
SubresourceOf(registry, inst, s_class) ==
    IF s_class = "KeyError" THEN SubresourceRaises("KeyError")
    ELSE IF s_class # NoClass /\ s_class # inst.class
    THEN IF RenameAssertion(registry[s_class])
         THEN [kind |-> "delegate", exception |-> "",
               inst |-> [New(registry, s_class, inst.view_method) EXCEPT !.data = inst.data]]
         ELSE SubresourceRaises("AssertionError")
    ELSE [kind |-> "none", exception |-> "", inst |-> NotConstructed]

_subresource(registry, inst, objclass) ==
    SubresourceOf(registry, inst, SubresourceClass(registry[inst.class], objclass))

Handles(inst, depth) == [raised |-> FALSE, exception |-> "", inst |-> inst, depth |-> depth]

HandlerRaises(e) == [raised |-> TRUE, exception |-> e, inst |-> NotConstructed, depth |-> 0]

\* the depth of delegation at which Python gives up with RecursionError
MaxDelegations == 2

\* the resource that handles the object in the end: lines 473-476, 706-708
RECURSIVE Handler(_, _, _, _)
HandlerVia(registry, inst, objclass, depth, sub) ==
    IF sub.kind = "none" THEN Handles(inst, depth)
    ELSE IF sub.kind = "raise" THEN HandlerRaises(sub.exception)
    ELSE IF depth = MaxDelegations THEN HandlerRaises("RecursionError")
    ELSE Handler(registry, sub.inst, objclass, depth + 1)

Handler(registry, inst, objclass, depth) ==
    HandlerVia(registry, inst, objclass, depth, _subresource(registry, inst, objclass))

(***************************************************************************)
(* Resource.validate_request (lines 462-510).                              *)
(***************************************************************************)
\* lines 489-492: the renames to perform, fields_to_update's keys
FieldsToUpdate(items, data) ==
    {i \in 1..Len(items) : items[i].v \in DOMAIN data}

\* a rename in one pass, each item working on what the ones before it left
RECURSIVE SinglePass(_, _)
SinglePass(items, data) ==
    IF items = <<>> THEN data
    ELSE SinglePass(Tail(items),
                    IF Head(items).v \in DOMAIN data
                    THEN [k \in (DOMAIN data \ {Head(items).v}) \cup {Head(items).k} |->
                             IF k = Head(items).k THEN data[Head(items).v] ELSE data[k]]
                    ELSE data)

\* lines 487-496: collect the renames, delete the old keys, write the new
RenamePass(items, data) ==
    [k \in (DOMAIN data \ {items[i].v : i \in FieldsToUpdate(items, data)})
              \cup {items[i].k : i \in FieldsToUpdate(items, data)} |->
        IF \E i \in FieldsToUpdate(items, data) : items[i].k = k
        THEN data[items[CHOOSE i \in FieldsToUpdate(items, data) : items[i].k = k].v]
        ELSE data[k]]

\* self.data of the resource that handled the request, and of the resource
\* called when no other one handled it
Validated(data, renamed, handler, depth) ==
    [raised |-> FALSE, exception |-> "", data |-> SomeData(data), renamed |-> renamed,
     handler |-> handler, depth |-> depth]

ValidateRaises(e, data, handler, depth) ==
    [raised |-> TRUE, exception |-> e, data |-> data, renamed |-> data.d,
     handler |-> handler, depth |-> depth]

\* schema.full_clean(): the validator rejects the data, returns it as it is,
\* or returns it with a value for every document field the data lacks
FullClean(c, data, outcome) ==
    IF outcome = "defaults"
    THEN [f \in DOMAIN data \cup c.doc_fields |->
             IF f \in DOMAIN data THEN data[f] ELSE Value("int", 1)]
    ELSE data

\* lines 498-510
Clean(c, renamed, outcome, handler, depth) ==
    IF c.schema
    THEN IF outcome = "invalid"
         THEN ValidateRaises("ValidationError", SomeData(renamed), handler, depth)
         ELSE Validated(FullClean(c, renamed, outcome), renamed, handler, depth)
    ELSE Validated(renamed, renamed, handler, depth)

\* lines 480-510 on the resource that handles the request
ValidateOn(registry, h, raw_data, outcome) ==
    IF h.raised THEN ValidateRaises(h.exception, NoData, NoClass, 0)
    ELSE Clean(registry[h.inst.class], RenamePass(h.inst._rename_fields, raw_data),
               outcome, h.inst.class, h.depth)

\* lines 472-478: a PUT on an object and a POST go through the subresources
validate_request(registry, inst, req, o, outcome) ==
    ValidateOn(registry,
               IF (req.method = "PUT" /\ ~o.is_none) \/ req.method = "POST"
               THEN Handler(registry, inst, o.class, 0)
               ELSE Handles(inst, 0),
               req.raw_data, outcome)

(***************************************************************************)
(* Resource.get_object_dict (lines 685-695).                               *)
(***************************************************************************)
\* every field of the document, whatever the payload names
AllFields(inst, c, raw_data, update) == c.doc_fields

\* lines 687-692
FilterFields(inst, c, raw_data, update) ==
    IF update
    THEN c.doc_fields \cap {Get(inst._reverse_rename_fields, k, k) : k \in DOMAIN raw_data}
    ELSE c.doc_fields

\* line 686: self.data or data
DataOr(inst, data) == IF inst.data.set /\ DOMAIN inst.data.d # {} THEN inst.data ELSE data

\* lines 693-695; None.items() raises AttributeError
ObjectDict(data, filter_fields) ==
    IF ~data.set THEN [raised |-> TRUE, d |-> EmptyDict]
    ELSE [raised |-> FALSE,
          d |-> [f \in DOMAIN data.d \cap filter_fields |-> data.d[f]]]

get_object_dict(inst, c, raw_data, data, update) ==
    ObjectDict(DataOr(inst, data), FilterFields(inst, c, raw_data, update))

(***************************************************************************)
(* Resource.save_object (lines 678-683).  failing names the store call     *)
(* that raises, "" when none does.                                         *)
(***************************************************************************)
StoreCalls == <<"ensure_indexes", "commit", "reload">>

\* the store calls made until one raises
CallsMade(failing) ==
    IF failing = "" THEN StoreCalls
    ELSE SubSeq(StoreCalls, 1, CHOOSE i \in 1..3 : StoreCalls[i] = failing)

\* obj.reload(): the object as the store holds it after the commit, a
\* document being kept as the reference to it
Reloaded(o) ==
    [o EXCEPT !._db_data = [f \in DOMAIN o.fields |->
        IF o.fields[f].t = "doc" THEN Value("dbref", o.fields[f].n) ELSE o.fields[f]]]

Saved(inst, o, calls, e) ==
    [raised |-> e # "", exception |-> e, inst |-> inst, obj |-> o, calls |-> calls]

\* save_object resetting _dirty_fields before its store calls
ClearFirst(inst, o, failing) ==
    IF failing = ""
    THEN Saved([inst EXCEPT !._dirty_fields = NoList], Reloaded(o), CallsMade(failing), "")
    ELSE Saved([inst EXCEPT !._dirty_fields = NoList], o, CallsMade(failing), "StoreError")

save_object(inst, o, failing) ==
    IF failing = ""
    THEN Saved([inst EXCEPT !._dirty_fields = NoList], Reloaded(o), CallsMade(failing), "")
    ELSE Saved(inst, o, CallsMade(failing), "StoreError")

(***************************************************************************)
(* Resource.update_object (lines 705-734).                                 *)
(***************************************************************************)
\* lines 719-722
IdFromObj(db_val) ==
    IF Falsy(db_val) THEN db_val
    ELSE IF db_val.t \in {"dbref", "doc"} THEN Value("int", db_val.n) ELSE db_val

IdFromData(value) ==
    IF Falsy(value) THEN value
    ELSE IF value.t = "doc" THEN Value("int", value.n) ELSE value

\* an update that compares nothing
UpdateAlways(c, o, field, value) == TRUE

\* lines 715-726: whether the field is to be updated
Update(c, o, field, value) ==
    IF o.has_db_data /\ field \in c.reference_fields
    THEN IdFromObj(Get(o._db_data, field, NoneValue)) # IdFromData(value)
    ELSE ~equal(o.fields[field], value)

\* the order in which the fields of a dict are visited
FieldOrder == <<<<"a">>, <<"b">>, <<"listfield">>>>

IsDirty(c, o, update_dict, field) ==
    field \in DOMAIN update_dict /\ Update(c, o, field, update_dict[field])

\* lines 712-730: the fields appended to _dirty_fields
DirtyFields(c, o, update_dict) ==
    SelectSeq(FieldOrder, LAMBDA field : IsDirty(c, o, update_dict, field))

\* lines 728-729: setattr(obj, field, value) for the fields to update
SetFields(c, o, update_dict) ==
    [o EXCEPT !.fields = [f \in DOMAIN o.fields |->
        IF IsDirty(c, o, update_dict, f) THEN update_dict[f] ELSE o.fields[f]]]

\* the outcome of update_object and create_object, with the update_dict of
\* line 710 and the _dirty_fields the loop has built when it ends
Updated(inst, o, calls, e, depth, update_dict, dirty) ==
    [raised |-> e # "", exception |-> e, inst |-> inst, obj |-> o, calls |-> calls,
     depth |-> depth, update_dict |-> update_dict, dirty |-> dirty]

AfterSave(r, depth, update_dict, dirty) ==
    Updated(r.inst, r.obj, r.calls, r.exception, depth, update_dict, dirty)

\* lines 732-734, 701-703
SaveIf(inst, o, save, failing, depth, update_dict, dirty) ==
    IF save
    THEN AfterSave(save_object([inst EXCEPT !._dirty_fields = SomeList(dirty)], o, failing),
                   depth, update_dict, dirty)
    ELSE Updated([inst EXCEPT !._dirty_fields = SomeList(dirty)], o, <<>>, "",
                 depth, update_dict, dirty)

\* lines 712-734
ApplyUpdate(inst, c, o, update_dict, save, failing, depth) ==
    IF update_dict.raised
    THEN Updated(inst, o, <<>>, "AttributeError", depth, EmptyDict, <<>>)
    ELSE SaveIf(inst, SetFields(c, o, update_dict.d), save, failing, depth,
                update_dict.d, DirtyFields(c, o, update_dict.d))

\* lines 710-734 on the resource that handles the object
UpdateOn(registry, h, req, o, data, save, failing) ==
    IF h.raised THEN Updated(NotConstructed, o, <<>>, h.exception, 0, EmptyDict, <<>>)
    ELSE ApplyUpdate(h.inst, registry[h.inst.class], o,
                     get_object_dict(h.inst, registry[h.inst.class], req.raw_data, data, TRUE),
                     save, failing, h.depth)

update_object(registry, inst, req, o, data, save, failing) ==
    UpdateOn(registry, Handler(registry, inst, o.class, 0), req, o, data, save, failing)

(***************************************************************************)
(* Resource.create_object (lines 697-703): no subresource is consulted.    *)
(***************************************************************************)
\* self.document(**update_dict)
Document(c, update_dict) ==
    [is_none |-> FALSE, class |-> c.document, has_db_data |-> FALSE,
     fields |-> [f \in c.doc_fields |-> Get(update_dict, f, NoneValue)],
     _db_data |-> EmptyDict]

DictKeys(d) == SelectSeq(FieldOrder, LAMBDA field : field \in DOMAIN d)

ApplyCreate(inst, c, update_dict, save, failing) ==
    IF update_dict.raised
    THEN Updated(inst, NoObject, <<>>, "AttributeError", 0, EmptyDict, <<>>)
    ELSE SaveIf(inst, Document(c, update_dict.d), save, failing, 0,
                update_dict.d, DictKeys(update_dict.d))

create_object(registry, inst, req, data, save, failing) ==
    ApplyCreate(inst, registry[inst.class],
                get_object_dict(inst, registry[inst.class], req.raw_data, data, FALSE),
                save, failing)

(***************************************************************************)
(* Resource.get_requested_fields (lines 184-229).  The keyword argument    *)
(* params is a record [set, p]: not set when the caller gave none.  The    *)
(* iteration of a set follows "order", a sequence of all the names.        *)
(***************************************************************************)
\* Resource.get_fields: fields is None in the class, so __init__ made it the
\* document's fields
get_fields(c) == SelectSeq(FieldOrder, LAMBDA f : f \in c.doc_fields)

\* Resource.get_optional_fields
get_optional_fields(c) == <<>>

\* for x in S
Iterate(S, order) == SelectSeq(order, LAMBDA x : x \in S)

RequestedFields(l, e) == [raised |-> e # "", exception |-> e, l |-> l]

\* list.remove(x) on a list that holds x
RemoveFirst(l, x) ==
    SubSeq(l, 1, (CHOOSE i \in 1..Len(l) : l[i] = x /\ \A j \in 1..(i - 1) : l[j] # x) - 1)
        \o SubSeq(l, 1 + (CHOOSE i \in 1..Len(l) : l[i] = x /\ \A j \in 1..(i - 1) : l[j] # x),
                  Len(l))

\* lines 225-227
RECURSIVE RemoveEach(_, _)
RemoveEach(l, _not_fields) ==
    IF _not_fields = <<>> THEN RequestedFields(l, "")
    ELSE IF ~InList(l, Head(_not_fields)) THEN RequestedFields(<<>>, "ValueError")
    ELSE RemoveEach(RemoveFirst(l, Head(_not_fields)), Tail(_not_fields))

\* lines 224-229
WithoutNotFields(params, requested_fields) ==
    IF ~params.set THEN RequestedFields(<<>>, "TypeError")
    ELSE IF HasParam(params.p, <<"_not_fields">>)
    THEN RemoveEach(requested_fields, Split(ParamValue(params.p, <<"_not_fields">>), ","))
    ELSE RequestedFields(requested_fields, "")

\* lines 199-200
all_fields_set(c) ==
    {get_fields(c)[i] : i \in 1..Len(get_fields(c))}
        \cup {get_optional_fields(c)[i] : i \in 1..Len(get_optional_fields(c))}

\* lines 203-222
FieldSelection(inst, c, only_fields, order) ==
    IF <<"_all">> \in only_fields
    THEN Iterate(all_fields_set(c), order)
    ELSE SelectSeq(ReverseRenamed(inst, Iterate(only_fields, order)),
                   LAMBDA actual_field : actual_field \in all_fields_set(c))

get_requested_fields(inst, c, params, order) ==
    WithoutNotFields(params,
        IF params.set /\ HasParam(params.p, <<"_fields">>)
        THEN FieldSelection(inst, c,
                 {Split(ParamValue(params.p, <<"_fields">>), ",")[i] :
                     i \in 1..Len(Split(ParamValue(params.p, <<"_fields">>), ","))}, order)
        ELSE get_fields(c))

(***************************************************************************)
(* Resource.serialize (lines 402-446) and get_field_value (lines 304-327). *)
(* A plain mapping is an object of the class "dict".                       *)
(***************************************************************************)
FieldValue(value, e) == [raised |-> e # "", exception |-> e, value |-> value]

\* lines 335-346: a referenced document is given as its DBRef
serialize_field_value(c, field_name, field_value) ==
    IF field_name \in c.reference_fields /\ field_value.t = "doc"
    THEN Value("dbref", field_value.n) ELSE field_value

\* lines 317-327
get_field_value(c, o, field_name) ==
    IF o.class = "dict"
    THEN IF field_name \in DOMAIN o.fields THEN FieldValue(o.fields[field_name], "")
         ELSE FieldValue(NoneValue, "KeyError")
    ELSE IF field_name \notin DOMAIN o.fields THEN FieldValue(NoneValue, "UnknownFieldError")
    ELSE FieldValue(serialize_field_value(c, field_name, o.fields[field_name]), "")

\* Resource.value_for_field
value_for_field(o, field) == FieldValue(NoneValue, "UnknownFieldError")

Serialized(data, e, handler, depth) ==
    [raised |-> e # "", exception |-> e, data |-> data, handler |-> handler, depth |-> depth]

\* lines 428-446: the loop over the requested fields
RECURSIVE SerializeFields(_, _, _, _, _, _)
SerializeField(inst, c, o, requested_fields, data, depth, v) ==
    IF v.exception = "UnknownFieldError"
    THEN IF value_for_field(o, Head(requested_fields)).exception = "UnknownFieldError"
         THEN SerializeFields(inst, c, o, Tail(requested_fields), data, depth)
         ELSE Serialized(EmptyDict, "Error", inst.class, depth)
    ELSE IF v.raised THEN Serialized(EmptyDict, v.exception, inst.class, depth)
    ELSE SerializeFields(inst, c, o, Tail(requested_fields),
             (Get(DictOf(inst._rename_fields), Head(requested_fields), Head(requested_fields))
                 :> v.value) @@ data,
             depth)

SerializeFields(inst, c, o, requested_fields, data, depth) ==
    IF requested_fields = <<>> THEN Serialized(data, "", inst.class, depth)
    ELSE SerializeField(inst, c, o, requested_fields, data, depth,
                        get_field_value(c, o, Head(requested_fields)))

\* lines 417-446
SerializeRequested(inst, c, o, requested_fields, depth) ==
    IF requested_fields.raised
    THEN Serialized(EmptyDict, requested_fields.exception, inst.class, depth)
    ELSE SerializeFields(inst, c, o, requested_fields.l, EmptyDict, depth)

\* lines 412-446 on the resource that handles the object
SerializeOn(registry, h, o, params, order) ==
    IF h.raised THEN Serialized(EmptyDict, h.exception, NoClass, 0)
    ELSE SerializeRequested(h.inst, registry[h.inst.class], o,
             get_requested_fields(h.inst, registry[h.inst.class], params, order), h.depth)

serialize(registry, inst, o, params, order) ==
    IF o.is_none \/ (o.class = "dict" /\ o.fields = EmptyDict)
    THEN Serialized(EmptyDict, "", inst.class, 0)
    ELSE SerializeOn(registry, Handler(registry, inst, o.class, 0), o, params, order)

(***************************************************************************)
(* The state machine.  A specification starts from the declared resource   *)
(* classes, constructs an instance and then serves calls on it.            *)
(***************************************************************************)
NoRequest == [method |-> "GET", params |-> <<>>, raw_data |-> EmptyDict]

Call(name, result) == [call |-> name, result |-> result]

Start(registry) ==
    /\ cls = registry
    /\ self = NotConstructed
    /\ request = NoRequest
    /\ obj = NoObject
    /\ store = <<>>
    /\ ret = [call |-> "", result |-> [raised |-> FALSE]]

\* an instance serves one request: it is constructed for it by the view
Fresh == self.constructed /\ ret.call = "__init__"

\* Resource.__init__
ResourceInit ==
    /\ ~self.constructed
    /\ ret.call = ""
    /\ \E class \in DOMAIN cls, view_method \in {"List", "BulkUpdate"} :
          /\ self' = New(cls, class, view_method)
          /\ ret' = Call("__init__", [raised |-> ~RenameAssertion(cls[class]),
                                      class |-> class])
    /\ UNCHANGED <<cls, request, obj, store>>

Rows(n) == [i \in 1..n |-> i]

Firstname == <<"firstname">>

\* the filters and ordering of example/app.py's UserResource
ExampleFilters ==
    (Firstname :> <<Operator("Exact", FALSE), Operator("Ne", FALSE)>>)
        @@ (<<"lastname">> :> <<Operator("Exact", FALSE), Operator("Ne", FALSE)>>)
        @@ (<<"nick">> :> <<Operator("Exact", FALSE), Operator("Ne", FALSE)>>)

\* the values a request gives _skip and _limit: integers and a non-integer
PageNumbers == {PyStr(n) : n \in (0 - 1)..(MaxLimitCfg + 1)} \cup {<<"x">>}

Optional(key, values) == {<<>>} \cup {<<Param(key, v)>> : v \in values}

PageParams ==
    {s \o l \o x : s \in Optional(<<"_skip">>, PageNumbers),
                   l \in Optional(<<"_limit">>, PageNumbers),
                   x \in {<<>>,
                          <<Param(<<"_order_by">>, Firstname)>>,
                          <<Param(Firstname \o <<"__", "ne">>, <<"B", "o", "b">>)>>}}

\* Resource.get_skip_and_limit
GetSkipAndLimit ==
    /\ Fresh
    /\ \E params \in PageParams :
          /\ request' = [NoRequest EXCEPT !.params = params]
          /\ ret' = Call("get_skip_and_limit", get_skip_and_limit(cls[self.class], params))
    /\ UNCHANGED <<cls, self, obj, store>>

\* Resource.get_objects
GetObjects ==
    /\ Fresh
    /\ \E params \in PageParams, n \in 0..MaxRows :
          /\ request' = [NoRequest EXCEPT !.params = params]
          /\ store' = Rows(n)
          /\ ret' = Call("get_objects", get_objects(self, cls[self.class], params, Rows(n)))
    /\ UNCHANGED <<cls, self, obj>>

InitPage ==
    \E registry \in
        {"UserResource" :> [ResourceDefaults EXCEPT
                               !.filters = ExampleFilters,
                               !.allowed_ordering = <<Firstname>>,
                               !.paginate = paginate,
                               !.max_limit = max_limit,
                               !.default_limit = default_limit,
                               !.bulk_update_limit = bulk_update_limit] :
            paginate \in BOOLEAN,
            max_limit \in 0..MaxLimitCfg,
            default_limit \in {1, MaxLimitCfg + 1},
            bulk_update_limit \in 0..(MaxLimitCfg + 1)} :
        Start(registry)

NextPage == ResourceInit \/ GetSkipAndLimit \/ GetObjects

SpecPage == InitPage /\ [][NextPage]_vars

(***************************************************************************)
(* The filter compiler: resources declaring filters on firstname and on    *)
(* the nested name firstname__ne, with and without a renamed field and a   *)
(* uri_prefix, and requests of up to MaxParams parameters.                 *)
(***************************************************************************)
FirstnameNe == Firstname \o <<"__", "ne">>

DeclaredOperators ==
    {<<Operator("Exact", FALSE), Operator("Ne", FALSE)>>,
     <<Operator("Exact", TRUE), Operator("In", TRUE)>>,
     <<Operator("Ne", TRUE), Operator("Gt", FALSE)>>,
     <<Operator("Boolean", TRUE), Operator("Startswith", FALSE)>>,
     <<>>}

\* the parts a key is made of: field, nested path, "not", operator suffix
KeyParts ==
    {<<Firstname>> \o nested \o negation \o suffix :
        nested \in {<<>>, <<<<"x">>>>},
        negation \in {<<>>, <<<<"not">>>>},
        suffix \in {<<>>, <<<<"ne">>>>, <<<<"exact">>>>, <<<<"in">>>>, <<<<"gt">>>>}}
        \cup {<<<<"lastname">>, <<"ne">>>>}

Bob == <<"B", "o", "b">>

\* the parameters of a request: a key and an empty, a quoted empty, a plain,
\* a comma-separated or a URI value (of the ids b and ub, one with a scheme
\* and a host)
FreeParams ==
    {Param(Join(parts, "__"), v) :
        parts \in KeyParts,
        v \in {<<>>, <<"\"", "\"">>, Bob, <<"a", ",", "b">>, <<"/", "u", "/", "b">>,
               <<"/", "u", "/", "u", "b">>,
               <<"s", ":", "/", "/", "h", "/", "u", "/", "b">>}}

DistinctKeys(params) ==
    \A i, j \in 1..Len(params) : i # j => params[i].key # params[j].key

CompanionSeqs(n) ==
    UNION {{q \in [1..m -> {Param(Firstname, Bob),
                             Param(<<"lastname", "__", "ne">>, Bob),
                             Param(Firstname \o <<"__", "in">>, <<>>)}] : DistinctKeys(q)} :
              m \in 0..n}

InsertAt(q, i, p) == SubSeq(q, 1, i) \o <<p>> \o SubSeq(q, i + 1, Len(q))

FilterParams ==
    {<<>>} \cup {q \in UNION {{InsertAt(c, i, p) : i \in 0..Len(c), p \in FreeParams} :
                                 c \in CompanionSeqs(MaxParams - 1)} :
                    DistinctKeys(q)}

\* Resource.apply_filters
ApplyFilters ==
    /\ Fresh
    /\ \E params \in FilterParams :
          /\ request' = [NoRequest EXCEPT !.params = params]
          /\ ret' = Call("apply_filters", apply_filters(self, cls[self.class], params))
    /\ UNCHANGED <<cls, self, obj, store>>

InitFilter ==
    \E registry \in
        {"FilterResource" :> [ResourceDefaults EXCEPT
                                 !.filters = filters,
                                 !.rename_fields = rename_fields,
                                 !.uri_prefix = uri_prefix] :
            filters \in {EmptyDict, FirstnameNe :> <<Operator("Exact", FALSE)>>}
                           \cup {Firstname :> ops : ops \in DeclaredOperators}
                           \cup {(Firstname :> ops) @@ (FirstnameNe :> <<Operator("Exact", FALSE)>>) :
                                    ops \in DeclaredOperators},
            rename_fields \in {<<>>, <<Item(<<"fn">>, Firstname)>>},
            uri_prefix \in {NoPrefix, [set |-> TRUE, s |-> <<"/", "u", "/">>]}} :
        Start(registry)

NextFilter == ResourceInit \/ ApplyFilters

SpecFilter == InitFilter /\ [][NextFilter]_vars

(***************************************************************************)
(* Mutations: resources on a document with the fields a, b (a reference)   *)
(* and listfield, under each rename map, with and without a schema and     *)
(* subresources, serving a PUT or a POST of up to MaxKeys payload keys.    *)
(***************************************************************************)
MaxKeys == 2

A == <<"a">>

B == <<"b">>

C == <<"c">>

Listfield == <<"listfield">>

List == <<"list">>

\* rename_fields declarations: none, the chains a -> b -> c in both orders,
\* a swap, the listfield example, and two fields renamed to the same name
RenameMaps ==
    {<<>>,
     <<Item(A, B), Item(B, C)>>,
     <<Item(B, C), Item(A, B)>>,
     <<Item(A, B), Item(B, A)>>,
     <<Item(Listfield, List)>>,
     <<Item(A, C), Item(B, C)>>}

DocumentResource ==
    [ResourceDefaults EXCEPT !.doc_fields = {A, B, Listfield}, !.reference_fields = {B},
                             !.allowed_ordering = <<B, C>>]

PayloadValues(key) ==
    IF key = List THEN {Value("list", 123)} ELSE {Value("int", 1), Value("doc", 1)}

\* the JSON payloads of up to MaxKeys keys
RawData ==
    {d \in UNION {[keys -> {Value("int", 1), Value("doc", 1), Value("list", 123)}] :
                     keys \in {k \in SUBSET {A, B, C, List} : Cardinality(k) <= MaxKeys}} :
        \A k \in DOMAIN d : d[k] \in PayloadValues(k)}

\* the objects a PUT finds; b is the reference as the object gives it and as
\* _db_data holds it
ExistingObjects(registry) ==
    {[is_none |-> FALSE, class |-> class, has_db_data |-> has_db_data,
      fields |-> (A :> a) @@ (B :> b[1]) @@ (Listfield :> Value("list", 1)),
      _db_data |-> (A :> a) @@ (B :> b[2]) @@ (Listfield :> Value("list", 1))] :
        class \in {registry[r].document : r \in DOMAIN registry},
        has_db_data \in BOOLEAN,
        a \in {Value("int", 1), Value("int", 2)},
        b \in {<<Value("doc", 1), Value("dbref", 1)>>,
                <<Value("doc", 2), Value("int", 2)>>,
                <<NoneValue, NoneValue>>}}

\* Resource.validate_request
ValidateRequest ==
    /\ Fresh
    /\ \E method \in {"PUT", "POST"}, raw_data \in RawData,
          o \in ExistingObjects(cls) \cup {NoObject},
          outcome \in {"clean", "defaults", "invalid"} :
          /\ method = "POST" => o = NoObject
          /\ request' = [NoRequest EXCEPT !.method = method, !.raw_data = raw_data]
          /\ obj' = o
          /\ ret' = Call("validate_request",
                         validate_request(cls, self, request', o, outcome))
          /\ self' = [self EXCEPT !.data =
                         IF ret'.result.raised /\ ret'.result.depth > 0
                         THEN self.data ELSE ret'.result.data]
    /\ UNCHANGED <<cls, store>>

\* what the view passes to update_object and create_object, and the store
\* call that fails
MutateInputs ==
    {[data |-> NoData, save |-> TRUE, failing |-> f] : f \in {"", "ensure_indexes", "commit", "reload"}}
        \cup {[data |-> NoData, save |-> FALSE, failing |-> ""],
              [data |-> SomeData(A :> Value("int", 2)), save |-> FALSE, failing |-> ""]}

\* the request was validated and the view goes on
Valid(method) ==
    /\ self.constructed
    /\ ret.call = "validate_request"
    /\ ~ret.result.raised
    /\ request.method = method

\* Resource.update_object
UpdateObject ==
    /\ Valid("PUT")
    /\ ~obj.is_none
    /\ \E in \in MutateInputs :
          /\ ret' = Call("update_object",
                         update_object(cls, self, request, obj, in.data, in.save, in.failing))
          /\ obj' = ret'.result.obj
          /\ store' = store \o ret'.result.calls
          /\ self' = IF ret'.result.inst.constructed /\ ret'.result.depth = 0
                     THEN ret'.result.inst ELSE self
    /\ UNCHANGED <<cls, request>>

\* Resource.create_object
CreateObject ==
    /\ Valid("POST")
    /\ \E in \in MutateInputs :
          /\ ret' = Call("create_object",
                         create_object(cls, self, request, in.data, in.save, in.failing))
          /\ obj' = ret'.result.obj
          /\ store' = store \o ret'.result.calls
          /\ self' = ret'.result.inst
    /\ UNCHANGED <<cls, request>>

\* Resource.save_object, called by the view after an unsaved mutation
SaveObject ==
    /\ ret.call \in {"update_object", "create_object"}
    /\ ~ret.result.raised
    /\ store = <<>>
    /\ ret.result.depth = 0
    /\ \E failing \in {"", "commit"} :
          /\ ret' = Call("save_object", save_object(self, obj, failing))
          /\ obj' = ret'.result.obj
          /\ store' = store \o ret'.result.calls
          /\ self' = ret'.result.inst
    /\ UNCHANGED <<cls, request>>

\* a resource without subresources, and a resource that hands SubDocument
\* objects to SubResource, which handles them itself or hands them back
InitMutate ==
    \E registry \in
        {"Resource" :> [DocumentResource EXCEPT !.rename_fields = rename, !.schema = schema] :
            rename \in RenameMaps, schema \in BOOLEAN}
            \cup
        {("Resource" :> [DocumentResource EXCEPT
                            !.rename_fields = <<Item(A, B), Item(B, C)>>,
                            !.child_document_resources = "SubDocument" :> "SubResource"])
            @@ ("SubResource" :> [DocumentResource EXCEPT
                            !.document = "SubDocument",
                            !.rename_fields = <<Item(Listfield, List)>>,
                            !.child_document_resources = "SubDocument" :> back,
                            !.default_child_resource_document = default]) :
            back \in {"SubResource", "Resource"}, default \in {NoClass, "SubDocument"}} :
        Start(registry)

\* the objects to serialize: documents and plain mappings, whole, without the
\* field a and without any field
Serializable(registry) ==
    {[o EXCEPT !.class = IF mapping THEN "dict" ELSE o.class,
               !.has_db_data = ~mapping,
               !._db_data = IF mapping THEN EmptyDict ELSE o._db_data,
               !.fields = [f \in DOMAIN o.fields \ without |-> o.fields[f]]] :
        o \in {e \in ExistingObjects(registry) : e.has_db_data},
        mapping \in BOOLEAN,
        without \in {{}, {A}, {A, B, Listfield}}}

\* Resource.serialize, with the request's params
Serialize ==
    /\ Fresh
    /\ \E o \in Serializable(cls) \cup {NoObject},
          params \in {<<>>, <<Param(<<"_fields">>, Join(<<B, A>>, ","))>>,
                      <<Param(<<"_not_fields">>, Listfield)>>},
          order \in {<<A, B, C, Listfield, List>>, <<List, Listfield, C, B, A>>} :
          /\ request' = [NoRequest EXCEPT !.params = params]
          /\ obj' = o
          /\ ret' = Call("serialize", serialize(cls, self, o, [set |-> TRUE, p |-> params], order))
    /\ UNCHANGED <<cls, self, store>>

NextMutate ==
    ResourceInit \/ ValidateRequest \/ UpdateObject \/ CreateObject \/ SaveObject \/ Serialize

SpecMutate == InitMutate /\ [][NextMutate]_vars

(***************************************************************************)
(* Reads: the same resources ordering a listing by the names b and c,      *)
(* alone or in a comma-separated list.                                     *)
(***************************************************************************)
\* Resource.apply_ordering
ApplyOrdering ==
    /\ Fresh
    /\ \E params \in Optional(<<"_order_by">>,
                              {Join(names, ",") : names \in
                                  UNION {[1..n -> {A, B, C}] : n \in 0..2}}) :
          /\ request' = [NoRequest EXCEPT !.params = params]
          /\ ret' = Call("apply_ordering", apply_ordering(self, cls[self.class], params))
    /\ UNCHANGED <<cls, self, obj, store>>

\* a comma-separated list of one or two of the names a, b and c
FieldLists == {Join(names, ",") : names \in UNION {[1..n -> {A, B, C}] : n \in 1..2}}

\* Resource.get_requested_fields, with the request's params; a set of names is
\* iterated in one of two opposite orders
GetRequestedFields ==
    /\ Fresh
    /\ \E fields \in Optional(<<"_fields">>, {<<"_all">>} \cup FieldLists),
          not_fields \in Optional(<<"_not_fields">>, FieldLists),
          order \in {<<A, B, C, Listfield, List>>, <<List, Listfield, C, B, A>>} :
          /\ request' = [NoRequest EXCEPT !.params = fields \o not_fields]
          /\ ret' = Call("get_requested_fields",
                         get_requested_fields(self, cls[self.class],
                                              [set |-> TRUE, p |-> fields \o not_fields], order))
    /\ UNCHANGED <<cls, self, obj, store>>

NextRead == ResourceInit \/ ApplyOrdering \/ GetRequestedFields

SpecRead == InitMutate /\ [][NextRead]_vars

(***************************************************************************)
(* Pagination and query assembly: the properties checked under SpecPage.   *)
(***************************************************************************)
Class == cls[self.class]

Listing == ret.call = "get_objects" /\ self.view_method # "BulkUpdate"

BulkUpdating == ret.call = "get_objects" /\ self.view_method = "BulkUpdate"

\* the request asks to skip S rows (no _skip asks for 0)
SkipIs(S) ==
    IF HasParam(request.params, <<"_skip">>)
    THEN ParamValue(request.params, <<"_skip">>) = PyStr(S)
    ELSE S = 0

\* the request's limit is L (no _limit asks for the default, capped at max_limit)
LimitIs(L) ==
    IF HasParam(request.params, <<"_limit">>)
    THEN ParamValue(request.params, <<"_limit">>) = PyStr(L)
    ELSE L = Min(Class.default_limit, Class.max_limit)

Requested == 0..(MaxLimitCfg + 2)

\* C1: on a paginated resource outside bulk mode, a request with valid
\* _skip=S and _limit=L returns the rows S+1..S+L of the matching rows, at
\* most L of them, and has_more is true exactly when more than L matching
\* rows follow the S skipped ones.
C1_PageWithinLimit ==
    \A S \in Requested, L \in Requested :
        (Listing /\ Class.paginate /\ SkipIs(S) /\ LimitIs(L) /\ L <= Class.max_limit)
        => /\ ~ret.result.raised
           /\ Len(ret.result.objs) <= L
           /\ ret.result.objs = SubSeq(store, S + 1, Min(Len(store), S + L))
           /\ (ret.result.has_more = "True") = (Len(store) - S > L)
           /\ ret.result.has_more \in {"True", "False"}

C1_Witness ==
    /\ Listing /\ Class.paginate
    /\ SkipIs(1) /\ LimitIs(2) /\ HasParam(request.params, <<"_limit">>)
    /\ Len(store) = 4
    /\ ret.result.has_more = "True"
    /\ ret.result.objs = <<2, 3>>

MaxLimitMessage ==
    "The limit you set is larger than the maximum limit for this resource (max_limit = %d)."

LimitAbove(L) ==
    /\ ret.call = "get_skip_and_limit" /\ Class.paginate
    /\ HasParam(request.params, <<"_limit">>)
    /\ ParamValue(request.params, <<"_limit">>) = PyStr(L)
    /\ L > Class.max_limit

SkipNotInteger ==
    /\ HasParam(request.params, <<"_skip">>)
    /\ ParamValue(request.params, <<"_skip">>) = <<"x">>

\* C3 as stated: on a paginated resource every request whose _limit is an
\* integer above max_limit raises a ValidationError that mentions max_limit,
\* and a limit that is returned never exceeds max_limit.
C3_Original ==
    /\ \A L \in Requested :
          LimitAbove(L) => /\ ret.result.raised
                           /\ ret.result.error = ValidationError(MaxLimitMessage,
                                                                 PyStr(Class.max_limit))
    /\ (ret.call = "get_skip_and_limit" /\ ~ret.result.raised)
           => ret.result.limit <= Class.max_limit

\* C3 amended: such a request always raises a ValidationError; the error
\* mentions max_limit unless _skip is not an integer, and then it names
\* _skip; a limit that is returned never exceeds max_limit.
C3_LimitAboveMaxRaises ==
    /\ \A L \in Requested :
          LimitAbove(L)
          => /\ ret.result.raised
             /\ IF SkipNotInteger
                THEN ret.result.error =
                         ValidationError("_skip must be an integer (got \"%s\" instead).", <<"x">>)
                ELSE ret.result.error =
                         ValidationError(MaxLimitMessage, PyStr(Class.max_limit))
    /\ (ret.call = "get_skip_and_limit" /\ ~ret.result.raised)
           => ret.result.limit <= Class.max_limit

C3_Witness ==
    /\ LimitAbove(3) /\ Class.max_limit = 2 /\ ~SkipNotInteger
    /\ ret.result.raised
    /\ ret.result.error.arg = <<"2">>

\* C4: on a resource with paginate = False, get_objects returns every row
\* that matches the filter, whatever _skip and _limit the request carries.
C4_UnpaginatedReturnsAll ==
    (Listing /\ ~Class.paginate) => (~ret.result.raised /\ ret.result.objs = store)

\* get_skip_and_limit was called on a paginated resource with the parameter
\* key given as the string v
Paged(key, v) ==
    /\ ret.call = "get_skip_and_limit" /\ Class.paginate
    /\ HasParam(request.params, key)
    /\ ParamValue(request.params, key) = v

\* C12: on a paginated resource a non-integer _limit or _skip raises a
\* ValidationError naming that parameter, a negative _skip or _limit raises a
\* ValidationError, and no request yields a negative skip or limit.
C12_NonNegativeIntegersOnly ==
    /\ Paged(<<"_limit">>, <<"x">>)
          => /\ ret.result.raised
             /\ ret.result.error =
                    ValidationError("_limit must be an integer (got \"%s\" instead).", <<"x">>)
    /\ (Paged(<<"_skip">>, <<"x">>) /\ ~Paged(<<"_limit">>, <<"x">>))
          => /\ ret.result.raised
             /\ ret.result.error =
                    ValidationError("_skip must be an integer (got \"%s\" instead).", <<"x">>)
    /\ Paged(<<"_skip">>, PyStr(0 - 1)) => ret.result.raised
    /\ Paged(<<"_limit">>, PyStr(0 - 1)) => ret.result.raised
    /\ (ret.call = "get_skip_and_limit" /\ Class.paginate /\ ~ret.result.raised)
          => ret.result.skip >= 0 /\ ret.result.limit >= 0

(***************************************************************************)
(* The filter compiler: the properties checked under SpecFilter.           *)
(***************************************************************************)
Filtering == ret.call = "apply_filters"

\* the key f__op, or f__not__op when negated
OperatorKey(f, negate, op) ==
    IF negate THEN f \o <<"__", "not", "__">> \o op ELSE f \o <<"__">> \o op

IsPrefix(s, t) == Len(s) <= Len(t) /\ SubSeq(t, 1, Len(s)) = s

\* no declared field other than f, longer than f, is spelled by the key
LongestField(f, key) ==
    \A g \in DOMAIN Class.filters :
        (Class.filters[g] # <<>> /\ Len(g) > Len(f))
        => ~(key = g \/ IsPrefix(g \o <<"__">>, key))

\* the single parameter f__op=v or f__not__op=v of the request
SingleOperatorParam(f, negate, op) ==
    /\ Filtering
    /\ Len(request.params) = 1
    /\ f \in DOMAIN self._filters
    /\ op \in DOMAIN self._filters[f] /\ op # <<>>
    /\ request.params[1].key = OperatorKey(f, negate, op)
    /\ negate => self._filters[f][op].allow_negation

\* the result is the AND of exactly the fragment r, or raises as r does
IsTheFragment(r) ==
    IF r.raised THEN ret.result.raised
    ELSE ~ret.result.raised /\ ret.result.filters = <<r.frag>>

Alone(p) == apply_filters(self, Class, <<p>>).filters

RECURSIVE Contributions(_, _)
Contributions(params, n) ==
    IF n = 0 THEN <<>> ELSE Contributions(params, n - 1) \o Alone(params[n])

KeyPartsOf(p) == Split(p.key, "__")

NoDeclaredPrefix(p) ==
    \A i \in 1..Len(KeyPartsOf(p)) :
        Join(SubSeq(KeyPartsOf(p), 1, i), "__") \notin DOMAIN Class.filters

NegationRefused(p) ==
    \E f \in DOMAIN self._filters :
        \E op \in DOMAIN self._filters[f] :
            /\ op # <<>>
            /\ p.key = OperatorKey(f, TRUE, op)
            /\ LongestField(f, p.key)
            /\ ~self._filters[f][op].allow_negation

\* C6: apply_filters never raises because of a parameter; a parameter whose
\* key has no declared field as a prefix, or that asks to negate an operator
\* that does not allow it, contributes no fragment; the result is the AND of
\* what each parameter contributes on its own, and the empty filter when no
\* parameter contributes.
C6_DropsOffendingTermOnly ==
    Filtering
    => /\ ~ret.result.raised
       /\ ret.result.filters = Contributions(request.params, Len(request.params))
       /\ \A i \in 1..Len(request.params) :
             (NoDeclaredPrefix(request.params[i]) \/ NegationRefused(request.params[i]))
             => Alone(request.params[i]) = <<>>

\* the request filters firstname by the value v alone, on a resource with
\* a uri_prefix that declares Exact for it
FilteredByUri(v) ==
    /\ Filtering
    /\ Class.uri_prefix.set
    /\ request.params = <<Param(Firstname, v)>>
    /\ Firstname \in DOMAIN self._filters
    /\ <<>> \in DOMAIN self._filters[Firstname]
    /\ self._filters[Firstname][<<>>].cls = "Exact"
    /\ ~ret.result.raised
    /\ Len(ret.result.filters) = 1

\* C13: on a resource with a uri_prefix the value uri_prefix + x, with or
\* without a scheme and a host before it, is filtered as the id x, whole.
C13_UriValueIsItsId ==
    \A x \in {<<"b">>, <<"u", "b">>} :
        /\ FilteredByUri(Class.uri_prefix.s \o x)
              => ret.result.filters[1].value = PyString(x)
        /\ FilteredByUri(<<"s", ":", "/", "/", "h">> \o Class.uri_prefix.s \o x)
              => ret.result.filters[1].value = PyString(x)

\* the request is f__in=v, or f__not__in=v when negated, alone, In is the
\* operator declared for it and the value, as normalized, is a string
SingleInParam(f, negate) ==
    /\ SingleOperatorParam(f, negate, <<"in">>)
    /\ LongestField(f, request.params[1].key)
    /\ self._filters[f][<<"in">>].cls = "In"
    /\ FilterValue(Class, request.params[1].value).t = "str"

\* C18: the In operator gives, for a value with a comma, a set-membership
\* fragment over the values between the commas (set-exclusion when negated),
\* and for a value without a comma the fragment that Exact gives for the same
\* field, value and negation.
C18_InDegradesToExact ==
    \A f \in DOMAIN self._filters, negate \in BOOLEAN :
        SingleInParam(f, negate)
        => /\ ~ret.result.raised
           /\ Len(ret.result.filters) = 1
           /\ IF Contains(FilterValue(Class, request.params[1].value).s, ",")
              THEN /\ ret.result.filters[1].shape = "cond"
                   /\ ret.result.filters[1].key # <<>>
                   /\ Last(ret.result.filters[1].key) = IF negate THEN "nin" ELSE "in"
                   /\ ret.result.filters[1].value =
                         PyList(Split(FilterValue(Class, request.params[1].value).s, ","))
              ELSE ret.result.filters[1] =
                      ExactPrepare(Operator("Exact", TRUE),
                                   Get(self._reverse_rename_fields, f, f),
                                   FilterValue(Class, request.params[1].value), negate).frag

\* the request is the single parameter firstname=v or, with the leftover
\* parts "nested", firstname__x=v, and its fragment is the result
FilteredOnPath(nested) ==
    /\ Filtering
    /\ Len(request.params) = 1
    /\ request.params[1].key = Firstname \o nested
    /\ Firstname \in DOMAIN self._filters
    /\ <<>> \in DOMAIN self._filters[Firstname]
    /\ ~ret.result.raised
    /\ Len(ret.result.filters) = 1

\* C19: the fragment of a filter on a public field name addresses the
\* underlying field, when the key has no leftover parts and when it has a
\* leftover nested path, which follows the underlying name.
C19_FragmentOnUnderlyingField ==
    \A nested \in {<<>>, <<"__", "x">>} :
        FilteredOnPath(nested)
        => ret.result.filters[1].field =
              Get(self._reverse_rename_fields, Firstname, Firstname) \o nested

(***************************************************************************)
(* Mutations: the properties checked under SpecMutate.                     *)
(***************************************************************************)
Updating == ret.call = "update_object"

Validating == ret.call = "validate_request"

\* the step is a call of update_object that got as far as its loop
UpdateStep == ret.call = "validate_request" /\ ret'.call = "update_object"

\* the id of a reference, whether given as a document, a DBRef or the id itself
RefId(v) == IF v.t = "none" THEN 0 ELSE v.n

\* the new value differs from the object's current one
Differs(c, o, f, v) ==
    IF o.has_db_data /\ f \in c.reference_fields
    THEN RefId(o.fields[f]) # RefId(v)
    ELSE o.fields[f] # v

Changed(c, o, update_dict, f) ==
    f \in DOMAIN update_dict /\ Differs(c, o, f, update_dict[f])

Mentioned(items, raw_data, f) ==
    \/ f \in DOMAIN raw_data
    \/ \E i \in 1..Len(items) : items[i].k = f /\ items[i].v \in DOMAIN raw_data

\* C8: on update the object dict holds only document fields whose underlying
\* or public name is a key of the raw payload, and update_object leaves every
\* field the payload does not mention as it was, whatever the cleaned data
\* holds for it.
C8_UnmentionedFieldsKept ==
    [][UpdateStep
       => IF ret'.result.inst.constructed
          THEN \A f \in DOMAIN obj.fields :
                  /\ f \in DOMAIN ret'.result.update_dict
                        => /\ f \in cls[ret'.result.inst.class].doc_fields
                           /\ Mentioned(ret'.result.inst._rename_fields, request.raw_data, f)
                  /\ ~Mentioned(ret'.result.inst._rename_fields, request.raw_data, f)
                        => obj'.fields[f] = obj.fields[f]
          ELSE obj' = obj]_vars

\* the cleaned data holds another value for a field the payload does not
\* mention, and the updated object keeps its own
C8_Witness ==
    /\ Updating
    /\ ~ret.result.raised
    /\ ret.result.dirty # <<>>
    /\ \E f \in DOMAIN obj.fields :
          /\ ~Mentioned(ret.result.inst._rename_fields, request.raw_data, f)
          /\ f \in DOMAIN ret.result.inst.data.d
          /\ ret.result.inst.data.d[f] # obj.fields[f]

\* the public name of an underlying field and the field of a public name,
\* read off the declaration
IsPublic(items, p) == \E i \in 1..Len(items) : items[i].v = p

Underlying(items, p) ==
    IF IsPublic(items, p) THEN items[CHOOSE i \in 1..Len(items) : items[i].v = p].k ELSE p

\* two different fields are renamed to the same public name
SameNameTwice(items) ==
    \E i, j \in 1..Len(items) : items[i].k # items[j].k /\ items[i].v = items[j].v

\* C9: in a constructed resource the rename map and the reverse-rename map
\* are inverses of each other, and the construction of a resource that renames
\* two fields to the same name fails.
C9_RenameMapsInverse ==
    /\ self.constructed
          => /\ \A i \in 1..Len(self._rename_fields) :
                   /\ self._rename_fields[i].v \in DOMAIN self._reverse_rename_fields
                   /\ self._reverse_rename_fields[self._rename_fields[i].v]
                         = self._rename_fields[i].k
             /\ \A p \in DOMAIN self._reverse_rename_fields :
                   \E i \in 1..Len(self._rename_fields) :
                      /\ self._rename_fields[i].k = self._reverse_rename_fields[p]
                      /\ self._rename_fields[i].v = p
    /\ (ret.call = "__init__" /\ SameNameTwice(cls[ret.result.class].rename_fields))
          => ret.result.raised /\ ~self.constructed

C9_Witness ==
    /\ ret.call = "__init__"
    /\ self.constructed
    /\ self._rename_fields = <<Item(A, B), Item(B, C)>>
    /\ self._reverse_rename_fields = (B :> A) @@ (C :> B)

\* the resource that handled the request has renamed the payload
Renamed == Validating /\ ret.result.handler # NoClass

\* C10: after the rename pass the data has, for each payload key, the key's
\* underlying field: a value posted under a public name is under that name's
\* field, a value posted under another key stays there unless the field's
\* public name was posted too, and nothing is renamed further; with
\* listfield renamed to list, {"list": [1,2,3]} gives {"listfield": [1,2,3]}.
C10_RenamedExactlyOnce ==
    Renamed
    => /\ DOMAIN ret.result.renamed
             = {Underlying(cls[ret.result.handler].rename_fields, p) :
                   p \in DOMAIN request.raw_data}
       /\ \A p \in DOMAIN request.raw_data :
             IF IsPublic(cls[ret.result.handler].rename_fields, p)
             THEN ret.result.renamed[Underlying(cls[ret.result.handler].rename_fields, p)]
                     = request.raw_data[p]
             ELSE (\A q \in DOMAIN request.raw_data :
                      Underlying(cls[ret.result.handler].rename_fields, q) = p => q = p)
                     => ret.result.renamed[p] = request.raw_data[p]
       /\ (/\ cls[ret.result.handler].rename_fields = <<Item(Listfield, List)>>
           /\ request.raw_data = (List :> Value("list", 123)))
             => ret.result.renamed = (Listfield :> Value("list", 123))

\* with a -> b and b -> c, the value posted under c is under b and the one
\* posted under b is under a
C10_Witness ==
    /\ Renamed
    /\ cls[ret.result.handler].rename_fields = <<Item(B, C), Item(A, B)>>
    /\ request.raw_data = (B :> Value("int", 1)) @@ (C :> Value("doc", 1))
    /\ ret.result.renamed = (A :> Value("int", 1)) @@ (B :> Value("doc", 1))

\* serialize was called with no _fields and no _not_fields on an object that
\* is not empty and that the resource serializes itself
SerializedHere ==
    /\ ret.call = "serialize"
    /\ request.params = <<>>
    /\ ~obj.is_none
    /\ ~(obj.class = "dict" /\ obj.fields = EmptyDict)
    /\ _subresource(cls, self, obj.class).kind = "none"

PublicName(f) == Get(DictOf(self._rename_fields), f, f)

\* C15: serialize does not raise for a requested field that the object, a
\* document or a plain mapping, does not have: the output holds, under their
\* public names, exactly the requested fields that the object has.
C15_MissingFieldOmitted ==
    SerializedHere
    => /\ ~ret.result.raised
       /\ DOMAIN ret.result.data = {PublicName(f) : f \in Class.doc_fields \cap DOMAIN obj.fields}
       /\ \A f \in Class.doc_fields \cap DOMAIN obj.fields :
             ret.result.data[PublicName(f)] =
                IF f \in Class.reference_fields /\ obj.fields[f].t = "doc"
                   /\ obj.class # "dict"
                THEN Value("dbref", obj.fields[f].n) ELSE obj.fields[f]

\* the call consulted _subresource for the object: validate_request for a
\* POST or a PUT on an object, update_object, serialize for a non-empty object
Dispatched ==
    \/ ret.call = "validate_request" /\ (request.method = "POST" \/ ~obj.is_none)
    \/ ret.call = "update_object"
    \/ ret.call = "serialize" /\ ~obj.is_none /\ ~(obj.class = "dict" /\ obj.fields = EmptyDict)

\* C16: when the class that the object's type, or else the default child
\* document, resolves to is the resource's own class, _subresource gives no
\* delegate and validate_request, update_object and serialize handle the
\* object on the resource itself, without any delegation.
C16_NoDelegationToItself ==
    (Dispatched /\ SubresourceClass(Class, obj.class) = self.class)
    => /\ _subresource(cls, self, obj.class).kind = "none"
       /\ ret.result.depth = 0
       /\ ret.result.exception # "RecursionError"
       /\ ret.call = "update_object" => ret.result.inst.class = self.class
       /\ ret.call # "update_object" => ret.result.handler = self.class

\* SubResource serves a SubDocument, which it maps to itself, and a Document,
\* which its default child document maps to itself
C16_Witness ==
    /\ Dispatched
    /\ self.class = "SubResource"
    /\ ~ret.result.raised
    /\ \/ /\ obj.class = "SubDocument"
          /\ Get(Class.child_document_resources, obj.class, NoClass) = self.class
       \/ /\ obj.class = "Document"
          /\ Class.default_child_resource_document = "SubDocument"
          /\ Class.child_document_resources["SubDocument"] = self.class

\* a step of create_object, update_object or save_object that made store calls
SaveStep ==
    /\ ret'.call \in {"create_object", "update_object", "save_object"}
    /\ ret'.result.calls # <<>>

\* C17: save_object calls ensure_indexes, commit and reload in this order,
\* stopping at the first that fails; _dirty_fields is reset exactly when all
\* three succeeded, and after a failure it is the list that create_object or
\* update_object recorded.
C17_SaveOrderAndDirtyReset ==
    [][SaveStep
       => /\ ret'.result.calls = SubSeq(StoreCalls, 1, Len(ret'.result.calls))
          /\ ret'.result.raised <=> ret'.result.exception = "StoreError"
          /\ ~ret'.result.raised => ret'.result.calls = StoreCalls
          /\ ret'.result.inst._dirty_fields =
                IF ~ret'.result.raised THEN NoList
                ELSE IF ret'.call = "save_object" THEN self._dirty_fields
                ELSE SomeList(ret'.result.dirty)]_vars

\* a save that fails at the commit, after a mutation that recorded dirty
\* fields without saving
C17_Witness ==
    /\ ret.call = "save_object"
    /\ ret.result.raised
    /\ store = <<"ensure_indexes", "commit">>
    /\ self._dirty_fields.set
    /\ self._dirty_fields.l # <<>>

(***************************************************************************)
(* Reads: the properties checked under SpecRead.                           *)
(***************************************************************************)
\* the fields the request's _order_by lists
OrderBy == Split(ParamValue(request.params, <<"_order_by">>), ",")

\* C11: apply_ordering honours _order_by exactly when every field it lists is
\* in allowed_ordering, and then returns the listed fields under their
\* underlying names in the order of the request; otherwise it returns no
\* ordering, and it never raises.
C11_OrderByListOfAllowedFields ==
    ret.call = "apply_ordering"
    => IF /\ HasParam(request.params, <<"_order_by">>)
          /\ \A i \in 1..Len(OrderBy) : InList(Class.allowed_ordering, OrderBy[i])
       THEN /\ ret.result.set
            /\ Len(ret.result.l) = Len(OrderBy)
            /\ \A i \in 1..Len(OrderBy) :
                  ret.result.l[i] = Underlying(self._rename_fields, OrderBy[i])
       ELSE ~ret.result.set

\* the names that the parameter key lists, under their underlying names
NamedBy(key) ==
    IF HasParam(request.params, key)
    THEN {Underlying(self._rename_fields, Split(ParamValue(request.params, key), ",")[i]) :
             i \in 1..Len(Split(ParamValue(request.params, key), ","))}
    ELSE {}

\* the fields that _fields selects: all of them for '_all' and without _fields
SelectedFields ==
    IF HasParam(request.params, <<"_fields">>)
       /\ ~InList(Split(ParamValue(request.params, <<"_fields">>), ","), <<"_all">>)
    THEN NamedBy(<<"_fields">>) \cap Class.doc_fields
    ELSE Class.doc_fields

\* C14: get_requested_fields returns, for every request, a list of exactly
\* the fields that _fields selects among the declared and optional fields
\* minus the fields that _not_fields names, public names standing for their
\* underlying fields in both parameters.
C14_SelectionMinusNotFields ==
    ret.call = "get_requested_fields"
    => /\ ~ret.result.raised
       /\ {ret.result.l[i] : i \in 1..Len(ret.result.l)}
             = SelectedFields \ NamedBy(<<"_not_fields">>)

====
